---- MODULE Spec2Model ----
(***************************************************************************)
(* Model of IncrementalOrder::perform_order_selection                      *)
(* (src/opennn/incremental_order.cpp).                                     *)
(*                                                                         *)
(* Performance values, tolerance, the goal and the times are doubles in    *)
(* the source; the model counts them in tenths (0.4 is 4, 1.5 s is 15).    *)
(* The evaluator (OrderSelectionAlgorithm::calculate_performances and      *)
(* get_parameters_order) is an external collaborator: it trains the live   *)
(* network at the order it is given and returns two performance values.   *)
(***************************************************************************)
EXTENDS Integers, Sequences, FiniteSets, TLC

\* ------------------------------------------------------------------ bounds

\* Largest hidden-layer size a configuration uses.
MaxOrder == 5

\* Largest elapsed wall-clock time a run can read (tenths of a second).
MaxClock == 1

\* Number of calls of perform_order_selection on one object (SpecReplay).
MaxCalls == 2

\* --------------------------------------------------------------- constants

\* double prev_generalization_performance = 1.0e99: above every performance.
PrevInit == 1000

\* Value of a scalar result field that has not been assigned yet.
Unset == -1

VARIABLES
    \* configuration (members of IncrementalOrder / OrderSelectionAlgorithm)
    minimum_order, maximum_order, step, tolerance,
    generalization_performance_goal, maximum_iterations_number,
    maximum_generalization_failures, maximum_time,
    reserve_performance_data, reserve_generalization_performance_data,
    reserve_parameters_data, reserve_minimal_parameters, display,
    \* locals of perform_order_selection
    pc, order, iterations, generalization_failures, end,
    prev_generalization_performance, optimal_order,
    optimum_generalization_performance, optimum_parameters,
    beginning_time, elapsed_time,
    \* the results record of the current call
    results,
    \* the live network: [order, parameters]
    network,
    \* environment: wall clock, evaluator invocations of the current call
    \* ([order, training]) and the elapsed times it read
    now, calls, readings,
    \* replay: inputs recorded from the previous call, its outcome, call count
    script, reference, ncalls,
    \* further configuration members of OrderSelectionAlgorithm
    trials_number, performance_calculation_method,
    \* whether the library was compiled with __OPENNN_DEBUG__
    debug,
    \* the latest member function called on the object, whether it threw
    \* std::logic_error, and the elements whose value from_XML stored
    op, raised, loaded,
    \* the XML document at hand (given to from_XML, written by save, read by
    \* load) and the lines written to std::cout
    document, console,
    \* members of GeneticAlgorithm, and how far its generation loop has got
    population, performance, fitness, population_size, inputs_number,
    elitism_size, mutation_rate, crossover_method, stage,
    \* the evaluator the genetic search runs against
    evaluator

thresholds == <<minimum_order, maximum_order, step, tolerance,
                generalization_performance_goal, maximum_iterations_number,
                maximum_generalization_failures, maximum_time>>

flags == <<reserve_performance_data, reserve_generalization_performance_data,
           reserve_parameters_data, reserve_minimal_parameters, display>>

locals == <<pc, order, iterations, generalization_failures, end,
            prev_generalization_performance, optimal_order,
            optimum_generalization_performance, optimum_parameters,
            beginning_time, elapsed_time>>

persistence == <<trials_number, performance_calculation_method, debug, op,
                 raised, loaded, document>>

genetic == <<population, performance, fitness, population_size, inputs_number,
             elitism_size, mutation_rate, crossover_method, stage, evaluator>>

vars == <<thresholds, flags, locals, results, network, now, calls, readings,
          script, reference, ncalls, persistence, console, genetic>>

\* ------------------------------------------------------------- evaluator

\* Generalization performance values an evaluation can return (tenths).
Performances == {4, 5, 6, 9}

\* What one training can produce: the two performance values and the trained
\* parameter vector (abstracted to a one-element vector naming the training).
Trainings ==
    { [training |-> g - 3, generalization |-> g, parameters |-> <<g>>] :
        g \in Performances }

\* calculate_performances(order): trains the live network at that order,
\* whatever it held before.
Trained(net, ord, tr) == [order |-> ord, parameters |-> tr.parameters]

\* get_parameters_order(order): the parameter vector of the latest training at
\* that order (empty when the order was never trained).
RECURSIVE get_parameters_order(_, _)
get_parameters_order(log, ord) ==
    IF log = <<>> THEN <<>>
    ELSE IF log[Len(log)].order = ord THEN log[Len(log)].training.parameters
    ELSE get_parameters_order(SubSeq(log, 1, Len(log) - 1), ord)

\* ---------------------------------------------------- pieces of the loop

Min(a, b) == IF a < b THEN a ELSE b

Abs(x) == IF x < 0 THEN -x ELSE x

\* Mutant: the first iteration not told apart, so that the uninitialized
\* optimum is read.
IsImprovementUnguarded(its, optimum, current) ==
    /\ optimum > current
    /\ Abs(optimum - current) > tolerance

\* Mutant: the comparison with the optimum inverted.
IsImprovementInverted(its, optimum, current) ==
    \/ its = 0
    \/ /\ optimum < current
       /\ Abs(optimum - current) > tolerance

\* Mutant: an improvement of exactly tolerance adopted too.
IsImprovementAtTolerance(its, optimum, current) ==
    \/ its = 0
    \/ /\ optimum > current
       /\ Abs(optimum - current) >= tolerance

\* Mutant: a change of more than tolerance adopted in either direction.
IsImprovementEitherWay(its, optimum, current) ==
    \/ its = 0
    \/ Abs(optimum - current) > tolerance

\* if (iterations == 0 || (optimum > current && fabs(optimum - current) > tolerance))
IsImprovement(its, optimum, current) ==
    \/ its = 0
    \/ /\ optimum > current
       /\ Abs(optimum - current) > tolerance

\* Mutant: every iteration that is not adopted counted as a failure.
IsFailureWhenNotAdopted(prev, current) == TRUE

\* Mutant: an unchanged performance counted as a failure.
IsFailureOrEqual(prev, current) == prev <= current

\* Mutant: the performance compared with the optimum's, not the previous
\* iteration's.
IsFailureAgainstOptimum(prev, current) ==
    optimum_generalization_performance < current

\* else if (prev_generalization_performance < current_generalization_performance)
IsFailure(prev, current) == prev < current

\* Mutant: the boundary criterion tested before the others.
StoppingCriteriaBoundaryFirst(elapsed, current, its, failures, ord) ==
    IF ord = maximum_order THEN "AlgorithmFinished"
    ELSE IF elapsed > maximum_time THEN "MaximumTime"
    ELSE IF current < generalization_performance_goal
        THEN "GeneralizationPerformanceGoal"
    ELSE IF its > maximum_iterations_number THEN "MaximumIterations"
    ELSE IF failures >= maximum_generalization_failures
        THEN "MaximumGeneralizationFailures"
    ELSE "Continue"

\* Mutant: the goal criterion taken inside the if (display) that prints it.
StoppingCriteriaIfDisplayed(elapsed, current, its, failures, ord) ==
    IF elapsed > maximum_time THEN "MaximumTime"
    ELSE IF display /\ current < generalization_performance_goal
        THEN "GeneralizationPerformanceGoal"
    ELSE IF its > maximum_iterations_number THEN "MaximumIterations"
    ELSE IF failures >= maximum_generalization_failures
        THEN "MaximumGeneralizationFailures"
    ELSE IF ord = maximum_order THEN "AlgorithmFinished"
    ELSE "Continue"

\* Mutant: the iteration criterion firing when the count reaches the maximum.
StoppingCriteriaAtMaximum(elapsed, current, its, failures, ord) ==
    IF elapsed > maximum_time THEN "MaximumTime"
    ELSE IF current < generalization_performance_goal
        THEN "GeneralizationPerformanceGoal"
    ELSE IF its >= maximum_iterations_number THEN "MaximumIterations"
    ELSE IF failures >= maximum_generalization_failures
        THEN "MaximumGeneralizationFailures"
    ELSE IF ord = maximum_order THEN "AlgorithmFinished"
    ELSE "Continue"

\* The stopping criteria chain; "Continue" when none holds.
StoppingCriteria(elapsed, current, its, failures, ord) ==
    IF elapsed > maximum_time THEN "MaximumTime"
    ELSE IF current < generalization_performance_goal
        THEN "GeneralizationPerformanceGoal"
    ELSE IF its > maximum_iterations_number THEN "MaximumIterations"
    ELSE IF failures >= maximum_generalization_failures
        THEN "MaximumGeneralizationFailures"
    ELSE IF ord = maximum_order THEN "AlgorithmFinished"
    ELSE "Continue"

\* Mutant: the order advanced without the clamp to maximum_order.
NextOrderUnclamped(ord) == ord + step

\* Mutant: the order never advanced.
NextOrderStuck(ord) == ord

\* order = std::min(maximum_order, order+step)
NextOrder(ord) == Min(maximum_order, ord + step)

\* Mutant: the value recorded whatever the flag.
ReserveAlways(flag, data, value) == Append(data, value)

\* if (reserve_...) results->..._data.push_back(value)
Reserve(flag, data, value) == IF flag THEN Append(data, value) ELSE data

\* new IncrementalOrderResults()
NewResults ==
    [ order_data |-> <<>>, performance_data |-> <<>>,
      generalization_performance_data |-> <<>>, parameters_data |-> <<>>,
      minimal_parameters |-> <<>>, stopping_condition |-> "Unset",
      optimal_order |-> Unset, final_generalization_performance |-> Unset,
      final_performance |-> Unset, iterations_number |-> Unset,
      elapsed_time |-> Unset ]

\* What the uninitialized locals (optimal_order,
\* optimum_generalization_performance, elapsed_time) can hold when the function
\* is entered: whatever the stack held, low or high.
IndeterminateLocals ==
    { [optimal_order |-> 0, optimum_generalization_performance |-> 0,
       elapsed_time |-> 0],
      [optimal_order |-> MaxOrder, optimum_generalization_performance |-> 9,
       elapsed_time |-> MaxClock] }

\* if (display) std::cout << ... << std::endl;
Shown(out, lines) == IF display THEN out \o lines ELSE out

\* The line written when a criterion fires (lines 250-275).
StoppingMessage(reason) ==
    CASE reason = "MaximumTime" -> <<"Maximum time reached.">>
      [] reason = "GeneralizationPerformanceGoal" ->
            <<"Generalization performance reached.">>
      [] reason = "MaximumIterations" ->
            <<"Maximum number of iterations reached.">>
      [] reason = "MaximumGeneralizationFailures" ->
            <<"Maximum generalization performance failures reached.">>
      [] reason = "AlgorithmFinished" -> <<"Algorithm finished">>
      [] OTHER -> <<>>

\* The five lines written at the end of every iteration (lines 279-286).
IterationLines ==
    <<"Iteration : ", "Hidden Perceptron Number : ",
      "Final Training Performance : ", "Final Generalization Performance : ",
      "Elapsed time : ">>

\* ------------------------------------------------------------- actions

\* Mutant: the results record and the counters of the call before kept.
EnterStale ==
    /\ results' = [results EXCEPT !.stopping_condition = "Unset"]
    /\ order' = minimum_order
    /\ iterations' = iterations
    /\ generalization_failures' = generalization_failures
    /\ end' = FALSE
    /\ prev_generalization_performance' = PrevInit
    /\ UNCHANGED <<optimal_order, optimum_generalization_performance,
                   elapsed_time>>
    /\ optimum_parameters' = <<>>
    /\ beginning_time' = now
    /\ pc' = "loop"
    /\ calls' = <<>>
    /\ readings' = <<>>
    /\ ncalls' = ncalls + 1
    /\ console' = Shown(console, <<"Performing Incremental order selection...">>)
    /\ UNCHANGED <<thresholds, flags, network, now, persistence, genetic>>

\* Lines 173-203: the results record and the locals.
Enter ==
    /\ results' = NewResults
    /\ order' = minimum_order
    /\ iterations' = 0
    /\ generalization_failures' = 0
    /\ end' = FALSE
    /\ prev_generalization_performance' = PrevInit
    /\ \E garbage \in IndeterminateLocals :
        /\ optimal_order' = garbage.optimal_order
        /\ optimum_generalization_performance' =
            garbage.optimum_generalization_performance
        /\ elapsed_time' = garbage.elapsed_time
    /\ optimum_parameters' = <<>>
    /\ beginning_time' = now
    /\ pc' = "loop"
    /\ calls' = <<>>
    /\ readings' = <<>>
    /\ ncalls' = ncalls + 1
    /\ console' = Shown(console, <<"Performing Incremental order selection...">>)
    /\ UNCHANGED <<thresholds, flags, network, now, persistence, genetic>>

\* A call of perform_order_selection on the object.
Begin ==
    /\ pc = "idle"
    /\ Enter
    /\ UNCHANGED <<script, reference>>

\* The call has returned; the caller keeps the results record, and the inputs
\* the call was fed are kept to feed the next call with them.
Return ==
    /\ pc = "done"
    /\ ncalls < MaxCalls
    /\ pc' = "idle"
    /\ script' = [ trainings |-> [i \in 1..Len(calls) |-> calls[i].training],
                   readings |-> readings ]
    /\ reference' = [ results |-> results, flags |-> flags ]
    /\ UNCHANGED <<thresholds, flags, order, iterations, generalization_failures,
                   end, prev_generalization_performance, optimal_order,
                   optimum_generalization_performance, optimum_parameters,
                   beginning_time, elapsed_time, results, network, now, calls,
                   readings, ncalls, persistence, genetic, console>>

\* The inputs of the next evaluation: scripted in a replay, free otherwise.
NextTrainings(k) ==
    IF k <= Len(script.trainings) THEN {script.trainings[k]} ELSE Trainings

NextReadings(k) ==
    IF k <= Len(script.readings) THEN {script.readings[k]}
    ELSE (now - beginning_time)..MaxClock

\* Mutant: the order recorded only when the performance history is reserved.
IterateReservingOrders ==
    /\ pc = "loop"
    /\ \E tr \in NextTrainings(Len(calls) + 1),
          reading \in NextReadings(Len(readings) + 1) :
        LET log == Append(calls, [order |-> order, training |-> tr])
            current_training_performance == tr.training
            current_generalization_performance == tr.generalization
            adopt == IsImprovement(iterations, optimum_generalization_performance,
                                   current_generalization_performance)
            failures == IF ~adopt /\ IsFailure(prev_generalization_performance,
                                               current_generalization_performance)
                        THEN generalization_failures + 1
                        ELSE generalization_failures
            reason == StoppingCriteria(reading, current_generalization_performance,
                                       iterations + 1, failures, order)
        IN  /\ calls' = log
            /\ network' = Trained(network, order, tr)
            /\ now' = beginning_time + reading
            /\ readings' = Append(readings, reading)
            /\ elapsed_time' = reading
            /\ results' =
                [results EXCEPT
                    !.order_data =
                        Reserve(reserve_performance_data, @, order),
                    !.performance_data =
                        Reserve(reserve_performance_data, @,
                                current_training_performance),
                    !.generalization_performance_data =
                        Reserve(reserve_generalization_performance_data, @,
                                current_generalization_performance),
                    !.parameters_data =
                        Reserve(reserve_parameters_data, @,
                                get_parameters_order(log, order)),
                    !.stopping_condition =
                        IF reason = "Continue" THEN @ ELSE reason]
            /\ optimal_order' = IF adopt THEN order ELSE optimal_order
            /\ optimum_generalization_performance' =
                IF adopt THEN current_generalization_performance
                ELSE optimum_generalization_performance
            /\ optimum_parameters' =
                IF adopt THEN get_parameters_order(log, order)
                ELSE optimum_parameters
            /\ generalization_failures' = failures
            /\ prev_generalization_performance' = current_generalization_performance
            /\ iterations' = iterations + 1
            /\ end' = (reason # "Continue")
            /\ order' = IF reason = "Continue" THEN NextOrder(order) ELSE order
            /\ pc' = IF reason = "Continue" THEN "loop" ELSE "final"
            /\ console' = Shown(console, StoppingMessage(reason) \o IterationLines)
    /\ UNCHANGED <<thresholds, flags, beginning_time, script, reference, ncalls,
                   persistence, genetic>>

\* Lines 205-290: one iteration of the loop.
Iterate ==
    /\ pc = "loop"
    /\ \E tr \in NextTrainings(Len(calls) + 1),
          reading \in NextReadings(Len(readings) + 1) :
        LET log == Append(calls, [order |-> order, training |-> tr])
            current_training_performance == tr.training
            current_generalization_performance == tr.generalization
            adopt == IsImprovement(iterations, optimum_generalization_performance,
                                   current_generalization_performance)
            failures == IF ~adopt /\ IsFailure(prev_generalization_performance,
                                               current_generalization_performance)
                        THEN generalization_failures + 1
                        ELSE generalization_failures
            reason == StoppingCriteria(reading, current_generalization_performance,
                                       iterations + 1, failures, order)
        IN  /\ calls' = log
            /\ network' = Trained(network, order, tr)
            /\ now' = beginning_time + reading
            /\ readings' = Append(readings, reading)
            /\ elapsed_time' = reading
            /\ results' =
                [results EXCEPT
                    !.order_data = Append(@, order),
                    !.performance_data =
                        Reserve(reserve_performance_data, @,
                                current_training_performance),
                    !.generalization_performance_data =
                        Reserve(reserve_generalization_performance_data, @,
                                current_generalization_performance),
                    !.parameters_data =
                        Reserve(reserve_parameters_data, @,
                                get_parameters_order(log, order)),
                    !.stopping_condition =
                        IF reason = "Continue" THEN @ ELSE reason]
            /\ optimal_order' = IF adopt THEN order ELSE optimal_order
            /\ optimum_generalization_performance' =
                IF adopt THEN current_generalization_performance
                ELSE optimum_generalization_performance
            /\ optimum_parameters' =
                IF adopt THEN get_parameters_order(log, order)
                ELSE optimum_parameters
            /\ generalization_failures' = failures
            /\ prev_generalization_performance' = current_generalization_performance
            /\ iterations' = iterations + 1
            /\ end' = (reason # "Continue")
            /\ order' = IF reason = "Continue" THEN NextOrder(order) ELSE order
            /\ pc' = IF reason = "Continue" THEN "loop" ELSE "final"
            /\ console' = Shown(console, StoppingMessage(reason) \o IterationLines)
    /\ UNCHANGED <<thresholds, flags, beginning_time, script, reference, ncalls,
                   persistence, genetic>>

\* multilayer_perceptron_pointer->set(...); ->set_parameters(optimum_parameters)
Install(ord, parameters) == [order |-> ord, parameters |-> parameters]

\* Mutant: the evaluation after the loop run at the last order of the loop.
ReevaluatedLastOrder == order

\* results->final_performance = calculate_performances(optimal_order)[0]
ReevaluatedOrder == optimal_order

\* Mutant: the final generalization performance taken from the evaluation
\* after the loop.
FinalizeFromReevaluation ==
    /\ pc = "final"
    /\ \E tr \in NextTrainings(Len(calls) + 1) :
        LET installed == Install(optimal_order, optimum_parameters)
        IN  /\ calls' = Append(calls, [order |-> ReevaluatedOrder, training |-> tr])
            /\ network' = Trained(installed, ReevaluatedOrder, tr)
            /\ results' =
                [results EXCEPT
                    !.minimal_parameters =
                        IF reserve_minimal_parameters THEN optimum_parameters ELSE @,
                    !.optimal_order = optimal_order,
                    !.final_generalization_performance = tr.generalization,
                    !.final_performance = tr.training,
                    !.iterations_number = iterations,
                    !.elapsed_time = elapsed_time]
    /\ pc' = "done"
    /\ console' = Shown(console, <<"Optimal order : ">>)
    /\ UNCHANGED <<thresholds, flags, order, iterations, generalization_failures,
                   end, prev_generalization_performance, optimal_order,
                   optimum_generalization_performance, optimum_parameters,
                   beginning_time, elapsed_time, now, readings, script,
                   reference, ncalls, persistence, genetic>>

\* Lines 292-307: install the optimum, fill the terminal fields, evaluate once
\* more at optimal_order.
Finalize ==
    /\ pc = "final"
    /\ \E tr \in NextTrainings(Len(calls) + 1) :
        LET installed == Install(optimal_order, optimum_parameters)
        IN  /\ calls' = Append(calls, [order |-> ReevaluatedOrder, training |-> tr])
            /\ network' = Trained(installed, ReevaluatedOrder, tr)
            /\ results' =
                [results EXCEPT
                    !.minimal_parameters =
                        IF reserve_minimal_parameters THEN optimum_parameters ELSE @,
                    !.optimal_order = optimal_order,
                    !.final_generalization_performance =
                        optimum_generalization_performance,
                    !.final_performance = tr.training,
                    !.iterations_number = iterations,
                    !.elapsed_time = elapsed_time]
    /\ pc' = "done"
    /\ console' = Shown(console, <<"Optimal order : ">>)
    /\ UNCHANGED <<thresholds, flags, order, iterations, generalization_failures,
                   end, prev_generalization_performance, optimal_order,
                   optimum_generalization_performance, optimum_parameters,
                   beginning_time, elapsed_time, now, readings, script,
                   reference, ncalls, persistence, genetic>>

\* --------------------------------------------------------- serialization

\* A text is a sequence of characters: digits, "." and, for the name of a
\* performance calculation method, the whole word.
Digits == <<"0", "1", "2", "3", "4", "5", "6", "7", "8", "9">>

IsDigit(c) == \E i \in 1..10 : Digits[i] = c

DigitValue(c) == (CHOOSE i \in 1..10 : Digits[i] = c) - 1

\* buffer << n for a size_t: the decimal numeral of n.
RECURSIVE WriteInteger(_)
WriteInteger(n) ==
    IF n < 10 THEN <<Digits[n + 1]>>
    ELSE Append(WriteInteger(n \div 10), Digits[(n % 10) + 1])

\* buffer << d for a double of d tenths (default format): the whole part, and
\* the fraction when there is one.
WriteDouble(d) ==
    IF d % 10 = 0 THEN WriteInteger(d \div 10)
    ELSE WriteInteger(d \div 10) \o <<".", Digits[(d % 10) + 1]>>

\* buffer << b for a bool.
WriteBool(b) == IF b THEN <<"1">> ELSE <<"0">>

\* The value of the leading digits of a text, after acc.
RECURSIVE LeadingValue(_, _)
LeadingValue(text, acc) ==
    IF text = <<>> \/ ~IsDigit(Head(text)) THEN acc
    ELSE LeadingValue(Tail(text), acc * 10 + DigitValue(Head(text)))

\* What follows the leading digits of a text.
RECURSIVE AfterDigits(_)
AfterDigits(text) ==
    IF text = <<>> \/ ~IsDigit(Head(text)) THEN text
    ELSE AfterDigits(Tail(text))

\* atoi: the integer the text starts with (0 when it starts with none).
atoi(text) == LeadingValue(text, 0)

\* atof: the decimal number the text starts with, in tenths.
atof(text) ==
    LET rest == AfterDigits(text)
    IN  10 * atoi(text)
          + (IF Len(rest) >= 2 /\ rest[1] = "." /\ IsDigit(rest[2])
             THEN DigitValue(rest[2]) ELSE 0)

\* The names of the elements under the root, in the order from_XML reads them.
ElementNames ==
    {"MinimumOrder", "MaximumOrder", "TrialsNumber",
     "PerformanceCalculationMethod", "Step", "ReserveParametersData",
     "ReservePerformanceData", "ReserveGeneralizationPerformanceData",
     "ReserveMinimalParameters", "Display", "GeneralizationPerformanceGoal",
     "MaximumIterationsNumber", "MaximumTime", "Tolerance",
     "MaximumGeneralizationFailures"}

\* A document is a record: the name of its root element ("" when it has none)
\* and, for each element name, <<text>> when the root has that child and <<>>
\* when it has not (FirstChildElement returns NULL).
Present(element) == element # <<>>

GetText(element) == element[1]

\* tinyxml2::XMLDocument document; nothing in it.
EmptyDocument ==
    [root |-> ""] @@ [name \in ElementNames |-> <<>>]

\* Mutant: any root element taken for the IncrementalOrder one.
HasAnyRoot(doc) == doc.root # ""

\* document.FirstChildElement("IncrementalOrder") is not NULL.
HasRoot(doc) == doc.root = "IncrementalOrder"

\* Lines 316-509: the document written for the configuration of the object.
to_XML ==
    [root |-> "IncrementalOrder",
     MinimumOrder |-> <<WriteInteger(minimum_order)>>,
     MaximumOrder |-> <<WriteInteger(maximum_order)>>,
     TrialsNumber |-> <<WriteInteger(trials_number)>>,
     PerformanceCalculationMethod |-> << <<performance_calculation_method>> >>,
     Step |-> <<WriteInteger(step)>>,
     ReserveParametersData |-> <<WriteBool(reserve_parameters_data)>>,
     ReservePerformanceData |-> <<WriteBool(reserve_performance_data)>>,
     ReserveGeneralizationPerformanceData |->
        <<WriteBool(reserve_generalization_performance_data)>>,
     ReserveMinimalParameters |-> <<WriteBool(reserve_minimal_parameters)>>,
     Display |-> <<WriteBool(display)>>,
     GeneralizationPerformanceGoal |->
        <<WriteDouble(generalization_performance_goal)>>,
     MaximumIterationsNumber |-> <<WriteInteger(maximum_iterations_number)>>,
     MaximumTime |-> <<WriteDouble(maximum_time)>>,
     Tolerance |-> <<WriteDouble(tolerance)>>,
     MaximumGeneralizationFailures |->
        <<WriteInteger(maximum_generalization_failures)>>]

\* ---------------------------------------------------------------- setters

\* What set_step throws ("" when it returns): the checks are compiled in a
\* debug build only. maximum_order - minimum_order is a difference of size_t:
\* when minimum_order is the larger it wraps to a value above every step.
StepException(new_step, minimum, maximum) ==
    IF ~debug THEN ""
    ELSE IF new_step <= 0 THEN "New_step must be greater than 0."
    ELSE IF maximum >= minimum /\ new_step > maximum - minimum
    THEN "New_step must be less than the distance between maximum_order and minimum_order."
    ELSE ""

\* What set_maximum_generalization_failures throws ("" when it returns).
FailuresException(new_maximum_performance_failures) ==
    IF debug /\ new_maximum_performance_failures <= 0
    THEN "Maximum generalization failures must be greater than 0."
    ELSE ""

\* The state of a search, which no operation on the configuration touches.
search == <<locals, results, network, now, calls, readings, script, reference,
            ncalls>>

\* A call recorded in op.
Call(name, argument) == [call |-> name, argument |-> argument]

\* Lines 112-140.
set_step(new_step) ==
    /\ pc = "idle"
    /\ op' = Call("set_step", new_step)
    /\ LET what == StepException(new_step, minimum_order, maximum_order)
       IN  /\ raised' = (what # "")
           /\ step' = IF what # "" THEN step ELSE new_step
    /\ loaded' = {}
    /\ UNCHANGED <<minimum_order, maximum_order, tolerance,
                   generalization_performance_goal, maximum_iterations_number,
                   maximum_generalization_failures, maximum_time, flags,
                   trials_number, performance_calculation_method, debug,
                   document, console, search, genetic>>

\* Lines 147-165.
set_maximum_generalization_failures(new_maximum_performance_failures) ==
    /\ pc = "idle"
    /\ op' = Call("set_maximum_generalization_failures",
                  new_maximum_performance_failures)
    /\ LET what == FailuresException(new_maximum_performance_failures)
       IN  /\ raised' = (what # "")
           /\ maximum_generalization_failures' =
                IF what # "" THEN maximum_generalization_failures
                ELSE new_maximum_performance_failures
    /\ loaded' = {}
    /\ UNCHANGED <<minimum_order, maximum_order, step, tolerance,
                   generalization_performance_goal, maximum_iterations_number,
                   maximum_time, flags, trials_number,
                   performance_calculation_method, debug, document, console,
                   search, genetic>>

\* OrderSelectionAlgorithm::set_maximum_time.
set_maximum_time(new_maximum_time) ==
    /\ pc = "idle"
    /\ op' = Call("set_maximum_time", new_maximum_time)
    /\ raised' = FALSE
    /\ maximum_time' = new_maximum_time
    /\ loaded' = {}
    /\ UNCHANGED <<minimum_order, maximum_order, step, tolerance,
                   generalization_performance_goal, maximum_iterations_number,
                   maximum_generalization_failures, flags, trials_number,
                   performance_calculation_method, debug, document, console,
                   search, genetic>>

\* ------------------------------------------------------------ persistence

\* Mutant: a catch clause that prints nothing.
ReportNothing(out, what) == out

\* catch(const std::logic_error& e) { std::cout << e.what() << std::endl; }
Report(out, what) == IF what = "" THEN out ELSE Append(out, what)

\* Lines 516-815, entered with step and maximum_generalization_failures at the
\* values given: the root is looked up, then each element in turn; a setter
\* that throws is caught, its message printed, and the next element read.
FromXML(current_step, current_failures) ==
    IF ~HasRoot(document)
    THEN /\ raised' = TRUE
         /\ loaded' = {}
         /\ step' = current_step
         /\ maximum_generalization_failures' = current_failures
         /\ UNCHANGED <<minimum_order, maximum_order, tolerance,
                        generalization_performance_goal,
                        maximum_iterations_number, maximum_time, flags,
                        trials_number, performance_calculation_method,
                        console>>
    ELSE
    LET new_minimum_order ==
            IF Present(document.MinimumOrder)
            THEN atoi(GetText(document.MinimumOrder)) ELSE minimum_order
        new_maximum_order ==
            IF Present(document.MaximumOrder)
            THEN atoi(GetText(document.MaximumOrder)) ELSE maximum_order
        step_exception ==
            IF Present(document.Step)
            THEN StepException(atoi(GetText(document.Step)),
                               new_minimum_order, new_maximum_order)
            ELSE ""
        failures_exception ==
            IF Present(document.MaximumGeneralizationFailures)
            THEN FailuresException(
                    atoi(GetText(document.MaximumGeneralizationFailures)))
            ELSE ""
        Flag(element, current) ==
            IF Present(element) THEN GetText(element) # <<"0">> ELSE current
    IN  /\ raised' = FALSE
        /\ minimum_order' = new_minimum_order
        /\ maximum_order' = new_maximum_order
        /\ trials_number' =
            IF Present(document.TrialsNumber)
            THEN atoi(GetText(document.TrialsNumber)) ELSE trials_number
        /\ performance_calculation_method' =
            IF Present(document.PerformanceCalculationMethod)
            THEN GetText(document.PerformanceCalculationMethod)[1]
            ELSE performance_calculation_method
        /\ step' =
            IF Present(document.Step) /\ step_exception = ""
            THEN atoi(GetText(document.Step)) ELSE current_step
        /\ reserve_parameters_data' =
            Flag(document.ReserveParametersData, reserve_parameters_data)
        /\ reserve_performance_data' =
            Flag(document.ReservePerformanceData, reserve_performance_data)
        /\ reserve_generalization_performance_data' =
            Flag(document.ReserveGeneralizationPerformanceData,
                 reserve_generalization_performance_data)
        /\ reserve_minimal_parameters' =
            Flag(document.ReserveMinimalParameters, reserve_minimal_parameters)
        /\ display' = Flag(document.Display, display)
        /\ generalization_performance_goal' =
            IF Present(document.GeneralizationPerformanceGoal)
            THEN atof(GetText(document.GeneralizationPerformanceGoal))
            ELSE generalization_performance_goal
        /\ maximum_iterations_number' =
            IF Present(document.MaximumIterationsNumber)
            THEN atoi(GetText(document.MaximumIterationsNumber))
            ELSE maximum_iterations_number
        /\ maximum_time' =
            IF Present(document.MaximumTime)
            THEN 10 * atoi(GetText(document.MaximumTime)) ELSE maximum_time
        /\ tolerance' =
            IF Present(document.Tolerance)
            THEN atof(GetText(document.Tolerance)) ELSE tolerance
        /\ maximum_generalization_failures' =
            IF Present(document.MaximumGeneralizationFailures)
               /\ failures_exception = ""
            THEN atoi(GetText(document.MaximumGeneralizationFailures))
            ELSE current_failures
        /\ console' = Report(Report(console, step_exception),
                             failures_exception)
        /\ loaded' =
            {name \in ElementNames : Present(document[name])}
              \ ( (IF step_exception # "" THEN {"Step"} ELSE {})
                  \cup (IF failures_exception # ""
                        THEN {"MaximumGeneralizationFailures"} ELSE {}) )

\* void IncrementalOrder::from_XML(const tinyxml2::XMLDocument& document)
from_XML ==
    /\ pc = "idle"
    /\ op' = Call("from_XML", 0)
    /\ FromXML(step, maximum_generalization_failures)
    /\ UNCHANGED <<debug, document, search, genetic>>

\* Lines 822-829: the document of to_XML written to the file.
save ==
    /\ pc = "idle"
    /\ op' = Call("save", 0)
    /\ raised' = FALSE
    /\ loaded' = {}
    /\ document' = to_XML
    /\ UNCHANGED <<thresholds, flags, trials_number,
                   performance_calculation_method, debug, console, search, genetic>>

\* Mutant: the file read without set_default before it.
loadWithoutDefault ==
    /\ pc = "idle"
    /\ \E readable \in BOOLEAN :
        /\ op' = Call("load", IF readable THEN 1 ELSE 0)
        /\ IF readable
           THEN FromXML(step, maximum_generalization_failures)
           ELSE /\ raised' = TRUE
                /\ loaded' = {}
                /\ UNCHANGED <<thresholds, flags, trials_number,
                               performance_calculation_method, console>>
    /\ UNCHANGED <<debug, document, search, genetic>>

\* Lines 837-855: set_default, then the file read (it may not be readable),
\* then from_XML on the document read.
load ==
    /\ pc = "idle"
    /\ \E readable \in BOOLEAN :
        /\ op' = Call("load", IF readable THEN 1 ELSE 0)
        /\ IF readable
           THEN FromXML(1, 3)
           ELSE /\ raised' = TRUE
                /\ loaded' = {}
                /\ step' = 1
                /\ maximum_generalization_failures' = 3
                /\ UNCHANGED <<minimum_order, maximum_order, tolerance,
                               generalization_performance_goal,
                               maximum_iterations_number, maximum_time, flags,
                               trials_number, performance_calculation_method,
                               console>>
    /\ UNCHANGED <<debug, document, search, genetic>>

\* ------------------------------------------------------- specifications

IdleState ==
    /\ pc = "idle"
    /\ order = 0 /\ iterations = 0 /\ generalization_failures = 0
    /\ end = FALSE
    /\ prev_generalization_performance = PrevInit
    /\ optimal_order = 0
    /\ optimum_generalization_performance = 0
    /\ optimum_parameters = <<>>
    /\ beginning_time = 0 /\ elapsed_time = 0
    /\ results = NewResults
    /\ network = [order |-> 0, parameters |-> <<>>]
    /\ now = 0
    /\ calls = <<>> /\ readings = <<>>
    /\ script = [trainings |-> <<>>, readings |-> <<>>]
    /\ reference = [results |-> NewResults, flags |-> flags]
    /\ ncalls = 0

\* No GeneticAlgorithm object is in use.
NoGeneticAlgorithm ==
    /\ population = <<>> /\ performance = <<>> /\ fitness = <<>>
    /\ population_size = 0 /\ inputs_number = 0
    /\ elitism_size = 0 /\ mutation_rate = 0
    /\ crossover_method = [method |-> "Point1", first |-> 0, second |-> 0]
    /\ evaluator = <<>>
    /\ stage = "none"

\* Nothing has been asked of the object yet and nothing written to std::cout.
NothingCalled ==
    /\ op = Call("none", 0)
    /\ raised = FALSE
    /\ loaded = {}
    /\ console = <<>>

\* The members the search does not read, in a build without __OPENNN_DEBUG__.
Release ==
    /\ trials_number = 1
    /\ performance_calculation_method = "Minimum"
    /\ debug = FALSE
    /\ document = EmptyDocument
    /\ NothingCalled

\* A configured object: every threshold drawn from a small set, every history
\* reserved.
Init ==
    /\ minimum_order \in 1..3
    /\ maximum_order \in {2, MaxOrder}
    /\ step \in 0..2
    /\ tolerance \in 0..2
    /\ generalization_performance_goal \in {0, 5}
    /\ maximum_iterations_number \in {1, 3}
    /\ maximum_generalization_failures \in 1..2
    /\ maximum_time \in 0..1
    /\ reserve_performance_data = TRUE
    /\ reserve_generalization_performance_data = TRUE
    /\ reserve_parameters_data = TRUE
    /\ reserve_minimal_parameters = TRUE
    /\ display = TRUE
    /\ IdleState
    /\ NoGeneticAlgorithm
    /\ Release

Next == Begin \/ Iterate \/ Finalize

Spec == Init /\ [][Next]_vars

\* The setters of the reserve flags, called between two calls of
\* perform_order_selection (the first call reserves everything).
set_reserve_performance_data(b) ==
    /\ pc = "idle" /\ ncalls > 0
    /\ reserve_performance_data' = b
    /\ UNCHANGED <<thresholds, reserve_generalization_performance_data,
                   reserve_parameters_data, reserve_minimal_parameters, display,
                   locals, results, network, now, calls, readings, script,
                   reference, ncalls, persistence, genetic, console>>

set_reserve_generalization_performance_data(b) ==
    /\ pc = "idle" /\ ncalls > 0
    /\ reserve_generalization_performance_data' = b
    /\ UNCHANGED <<thresholds, reserve_performance_data,
                   reserve_parameters_data, reserve_minimal_parameters, display,
                   locals, results, network, now, calls, readings, script,
                   reference, ncalls, persistence, genetic, console>>

set_reserve_parameters_data(b) ==
    /\ pc = "idle" /\ ncalls > 0
    /\ reserve_parameters_data' = b
    /\ UNCHANGED <<thresholds, reserve_performance_data,
                   reserve_generalization_performance_data,
                   reserve_minimal_parameters, display,
                   locals, results, network, now, calls, readings, script,
                   reference, ncalls, persistence, genetic, console>>

set_reserve_minimal_parameters(b) ==
    /\ pc = "idle" /\ ncalls > 0
    /\ reserve_minimal_parameters' = b
    /\ UNCHANGED <<thresholds, reserve_performance_data,
                   reserve_generalization_performance_data,
                   reserve_parameters_data, display,
                   locals, results, network, now, calls, readings, script,
                   reference, ncalls, persistence, genetic, console>>

\* The configurations of Init whose order range is not empty and whose step
\* is at least 1.
InitTermination ==
    /\ Init
    /\ step >= 1
    /\ minimum_order <= maximum_order

\* A call runs to its end: the loop and the finalization are sequential code
\* whose every step is taken once it can be.
SpecTermination == InitTermination /\ [][Next]_vars /\ WF_vars(Next)

\* One order range walked with step 1 or 2, every threshold low enough to fire.
InitReplay ==
    /\ minimum_order = 1
    /\ maximum_order = 3
    /\ step \in 1..2
    /\ tolerance \in 0..1
    /\ generalization_performance_goal = 5
    /\ maximum_iterations_number = 2
    /\ maximum_generalization_failures = 1
    /\ maximum_time = 0
    /\ reserve_performance_data = TRUE
    /\ reserve_generalization_performance_data = TRUE
    /\ reserve_parameters_data = TRUE
    /\ reserve_minimal_parameters = TRUE
    /\ display = TRUE
    /\ IdleState
    /\ NoGeneticAlgorithm
    /\ Release

NextReplay ==
    \/ Begin \/ Iterate \/ Finalize \/ Return
    \/ \E b \in BOOLEAN : set_reserve_performance_data(b)
    \/ \E b \in BOOLEAN : set_reserve_generalization_performance_data(b)
    \/ \E b \in BOOLEAN : set_reserve_parameters_data(b)
    \/ \E b \in BOOLEAN : set_reserve_minimal_parameters(b)

SpecReplay == InitReplay /\ [][NextReplay]_vars

\* A document whose elements all hold a valid value, and every document
\* obtained from it by leaving elements out.
Subsets ==
    [root : {"IncrementalOrder"},
     MinimumOrder : {<<>>, << <<"2">> >>},
     MaximumOrder : {<<>>, << <<"4">> >>},
     TrialsNumber : {<<>>, << <<"3">> >>},
     PerformanceCalculationMethod : {<<>>, << <<"Mean">> >>},
     Step : {<<>>, << <<"1">> >>},
     ReserveParametersData : {<<>>, << <<"0">> >>},
     ReservePerformanceData : {<<>>, << <<"0">> >>},
     ReserveGeneralizationPerformanceData : {<<>>, << <<"0">> >>},
     ReserveMinimalParameters : {<<>>, << <<"0">> >>},
     Display : {<<>>, << <<"0">> >>},
     GeneralizationPerformanceGoal : {<<>>, << <<"0", ".", "5">> >>},
     MaximumIterationsNumber : {<<>>, << <<"1", "2">> >>},
     MaximumTime : {<<>>, << <<"2">> >>},
     Tolerance : {<<>>, << <<"0", ".", "1">> >>},
     MaximumGeneralizationFailures : {<<>>, << <<"2">> >>}]

\* Documents with every element present: other roots, other order ranges,
\* steps and failure thresholds a setter may refuse, a maximum time of 1.5 s.
Variants ==
    [root : {"IncrementalOrder", "GeneticAlgorithm", ""},
     MinimumOrder : {<<>>, << <<"2">> >>, << <<"5">> >>},
     MaximumOrder : {<<>>, << <<"4">> >>},
     TrialsNumber : {<< <<"3">> >>},
     PerformanceCalculationMethod : {<< <<"Mean">> >>},
     Step : {<< <<"0">> >>, << <<"2">> >>, << <<"3">> >>},
     ReserveParametersData : {<< <<"0">> >>},
     ReservePerformanceData : {<< <<"1">> >>},
     ReserveGeneralizationPerformanceData : {<< <<"0">> >>},
     ReserveMinimalParameters : {<< <<"1">> >>},
     Display : {<< <<"0">> >>},
     GeneralizationPerformanceGoal : {<< <<"0", ".", "5">> >>},
     MaximumIterationsNumber : {<< <<"1", "2">> >>},
     MaximumTime : {<< <<"2">> >>, << <<"1", ".", "5">> >>},
     Tolerance : {<< <<"0", ".", "1">> >>},
     MaximumGeneralizationFailures : {<< <<"0">> >>, << <<"2">> >>}]

Documents == Subsets \cup Variants

\* A configured object, in either build, handed one of the documents.
InitLoad ==
    /\ minimum_order = 1
    /\ maximum_order = 3
    /\ step = 2
    /\ tolerance = 2
    /\ generalization_performance_goal = 0
    /\ maximum_iterations_number = 3
    /\ maximum_generalization_failures = 1
    /\ maximum_time = 10
    /\ reserve_performance_data = TRUE
    /\ reserve_generalization_performance_data = TRUE
    /\ reserve_parameters_data = TRUE
    /\ reserve_minimal_parameters = TRUE
    /\ display = TRUE
    /\ trials_number = 1
    /\ performance_calculation_method = "Minimum"
    /\ debug \in BOOLEAN
    /\ document \in Documents
    /\ NothingCalled
    /\ IdleState
    /\ NoGeneticAlgorithm

\* The document is loaded once, by from_XML or from a file by load.
NextLoad == op.call = "none" /\ (from_XML \/ load)

SpecLoad == InitLoad /\ [][NextLoad]_vars

\* Documents of this class that hold some of five elements and no other.
Partial ==
    { [EmptyDocument EXCEPT
          !.root = "IncrementalOrder",
          !.MinimumOrder = IF "MinimumOrder" \in held
                           THEN << <<"2">> >> ELSE <<>>,
          !.Step = IF "Step" \in held THEN << <<"2">> >> ELSE <<>>,
          !.MaximumTime = IF "MaximumTime" \in held
                          THEN << <<"2">> >> ELSE <<>>,
          !.Tolerance = IF "Tolerance" \in held
                        THEN << <<"0", ".", "1">> >> ELSE <<>>,
          !.MaximumGeneralizationFailures =
              IF "MaximumGeneralizationFailures" \in held
              THEN << <<"2">> >> ELSE <<>>] :
      held \in SUBSET {"MinimumOrder", "Step", "MaximumTime", "Tolerance",
                       "MaximumGeneralizationFailures"} }

\* An object configured with any of several steps and failure thresholds, in
\* either build, handed one of the partial documents.
InitReset ==
    /\ minimum_order = 1
    /\ maximum_order = 4
    /\ step \in 1..3
    /\ tolerance = 2
    /\ generalization_performance_goal = 0
    /\ maximum_iterations_number = 3
    /\ maximum_generalization_failures \in 1..3
    /\ maximum_time = 10
    /\ reserve_performance_data = TRUE
    /\ reserve_generalization_performance_data = TRUE
    /\ reserve_parameters_data = TRUE
    /\ reserve_minimal_parameters = TRUE
    /\ display = TRUE
    /\ trials_number = 1
    /\ performance_calculation_method = "Minimum"
    /\ debug \in BOOLEAN
    /\ document \in Partial
    /\ NothingCalled
    /\ IdleState
    /\ NoGeneticAlgorithm

SpecReset == InitReset /\ [][NextLoad]_vars

\* The document of another class, with one element of a name this class reads.
ForeignDocument ==
    [EmptyDocument EXCEPT !.root = "GeneticAlgorithm",
                          !.MaximumGeneralizationFailures = << <<"2">> >>]

\* A constructed object (set_default has run), in either build; its setters
\* are called, it is saved to a file and loaded from it.
InitConfigure ==
    /\ minimum_order \in {1, 4}
    /\ maximum_order = 3
    /\ step = 1
    /\ tolerance = 0
    /\ generalization_performance_goal = 0
    /\ maximum_iterations_number = 3
    /\ maximum_generalization_failures = 3
    /\ maximum_time = 10
    /\ reserve_performance_data = TRUE
    /\ reserve_generalization_performance_data = TRUE
    /\ reserve_parameters_data = TRUE
    /\ reserve_minimal_parameters = TRUE
    /\ display = TRUE
    /\ trials_number = 1
    /\ performance_calculation_method = "Minimum"
    /\ debug \in BOOLEAN
    /\ document \in {EmptyDocument, ForeignDocument}
    /\ NothingCalled
    /\ IdleState
    /\ NoGeneticAlgorithm

NextConfigure ==
    \/ \E new_step \in 0..3 : set_step(new_step)
    \/ \E new_maximum_performance_failures \in 0..2 :
        set_maximum_generalization_failures(new_maximum_performance_failures)
    \/ \E new_maximum_time \in {0, 15} : set_maximum_time(new_maximum_time)
    \/ save
    \/ from_XML
    \/ load

SpecConfigure == InitConfigure /\ [][NextConfigure]_vars


\* The call has returned and the caller has taken the results record; the
\* next call is fed whatever the evaluator and the clock then give.
Handover ==
    /\ pc = "done"
    /\ ncalls < MaxCalls
    /\ pc' = "idle"
    /\ reference' = [ results |-> results, flags |-> flags ]
    /\ UNCHANGED <<thresholds, flags, order, iterations, generalization_failures,
                   end, prev_generalization_performance, optimal_order,
                   optimum_generalization_performance, optimum_parameters,
                   beginning_time, elapsed_time, results, network, now, calls,
                   readings, script, ncalls, persistence, genetic, console>>

\* One order range, walked by 1, every threshold low enough to fire; calls
\* made one after the other.
InitCalls ==
    /\ minimum_order = 1
    /\ maximum_order = 2
    /\ step = 1
    /\ tolerance = 0
    /\ generalization_performance_goal = 5
    /\ maximum_iterations_number = 2
    /\ maximum_generalization_failures = 1
    /\ maximum_time = 0
    /\ reserve_performance_data = TRUE
    /\ reserve_generalization_performance_data = TRUE
    /\ reserve_parameters_data = TRUE
    /\ reserve_minimal_parameters = TRUE
    /\ display = TRUE
    /\ IdleState
    /\ NoGeneticAlgorithm
    /\ Release

NextCalls == Begin \/ Iterate \/ Finalize \/ Handover

SpecCalls == InitCalls /\ [][NextCalls]_vars

\* OrderSelectionAlgorithm::set_display, called between two calls of
\* perform_order_selection.
set_display(b) ==
    /\ pc = "idle" /\ ncalls > 0
    /\ display' = b
    /\ UNCHANGED <<thresholds, reserve_performance_data,
                   reserve_generalization_performance_data,
                   reserve_parameters_data, reserve_minimal_parameters,
                   locals, results, network, now, calls, readings, script,
                   reference, ncalls, persistence, genetic, console>>

\* The configurations of InitReplay, with the progress report on or off; a
\* call is fed the inputs of the call before it, display set in between.
InitDisplay ==
    /\ minimum_order = 1
    /\ maximum_order = 3
    /\ step \in 1..2
    /\ tolerance \in 0..1
    /\ generalization_performance_goal = 5
    /\ maximum_iterations_number = 2
    /\ maximum_generalization_failures = 1
    /\ maximum_time = 0
    /\ reserve_performance_data = TRUE
    /\ reserve_generalization_performance_data = TRUE
    /\ reserve_parameters_data = TRUE
    /\ reserve_minimal_parameters = TRUE
    /\ display \in BOOLEAN
    /\ IdleState
    /\ NoGeneticAlgorithm
    /\ Release

NextDisplay ==
    \/ Begin \/ Iterate \/ Finalize \/ Return
    \/ \E b \in BOOLEAN : set_display(b)

SpecDisplay == InitDisplay /\ [][NextDisplay]_vars

\* ------------------------------------------------------- genetic engine
\* GeneticAlgorithm searches the subsets of the input variables.  Only its
\* declaration is at hand; the operators below follow the documented behaviour
\* of the members it declares.  Rates are in tenths, fitness in thousandths.

\* <<population_size, inputs_number>> of the searches explored.
Sizes == {<<2, 2>>, <<4, 2>>, <<2, 3>>}

MutationRates == {0, 5, 10}

\* An individual: bit i tells whether input variable i is used.
Individuals(n) == [1..n -> BOOLEAN]

AllFalse(individual) == \A i \in DOMAIN individual : ~individual[i]

UsedInputs(individual) == {i \in DOMAIN individual : individual[i]}

\* The evaluator, fixed for a run: what using each input adds to or takes
\* from the generalization performance of the trained network.
Gains(n) == [1..n -> {-1, 2}]

RECURSIVE Gain(_, _, _)
Gain(gains, individual, i) ==
    IF i = 0 THEN 0
    ELSE Gain(gains, individual, i - 1)
            + (IF individual[i] THEN gains[i] ELSE 0)

\* One row of the performance matrix: <<training, generalization>>.
Evaluate(gains, individual) ==
    LET generalization == 9 - Gain(gains, individual, Len(individual))
    IN  <<generalization - 3, generalization>>

\* Objective-based fitness 1 / (1 + performance) of a row.
calculate_objetive_fitness(row) == 1000 \div (10 + row[2])

\* The crossover settings: the method with its fixed points (0: drawn for
\* each pair).
Crossovers(n) ==
    { [method |-> "Point1", first |-> c, second |-> 0] : c \in 0..(n - 1) }
    \cup { [method |-> "Points2", first |-> 0, second |-> 0] }
    \cup { [method |-> "Points2", first |-> cuts[1], second |-> cuts[2]] :
             cuts \in {c \in (1..(n - 1)) \X (2..n) : c[1] < c[2]} }
    \cup { [method |-> "UniformCrossover", first |-> 0, second |-> 0] }

\* Individual i is ahead of individual j in the fitness ranking.
Fitter(fit, i, j) == fit[i] > fit[j] \/ (fit[i] = fit[j] /\ i < j)

\* The index of the individual at a place of the ranking (1 is the fittest).
Ranked(fit, place) ==
    CHOOSE i \in DOMAIN fit :
        Cardinality({j \in DOMAIN fit : Fitter(fit, j, i)}) = place - 1

\* The individuals elitism carries over, without the ranking.
EliteUnranked(individuals, fit, size) ==
    [place \in 1..size |-> individuals[place]]

\* The individuals elitism carries over: the elitism_size fittest.
Elite(individuals, fit, size) ==
    [place \in 1..size |-> individuals[Ranked(fit, place)]]

\* perform_selection: the mating pairs the roulette wheel can give; every
\* individual of positive fitness can be drawn, any number of times.
perform_selection(individuals, fit) ==
    LET drawn == {i \in DOMAIN fit : fit[i] > 0}
    IN  { <<individuals[i], individuals[j]>> : i \in drawn, j \in drawn }

\* Which parent each bit of offspring A comes from (TRUE: parent 1), for each
\* way the crossover can fall.
Inheritances(crossover, n) ==
    CASE crossover.method = "Point1" ->
            { [i \in 1..n |-> i <= c] :
                c \in IF crossover.first = 0 THEN 1..(n - 1)
                      ELSE {crossover.first} }
      [] crossover.method = "Points2" ->
            { [i \in 1..n |-> i <= cuts[1] \/ i > cuts[2]] :
                cuts \in IF crossover.first = 0
                         THEN {c \in (0..(n - 1)) \X (1..n) : c[1] < c[2]}
                         ELSE {<<crossover.first, crossover.second>>} }
      [] OTHER -> [1..n -> BOOLEAN]

Cross(parent1, parent2, inheritance) ==
    [i \in DOMAIN parent1 |->
        IF inheritance[i] THEN parent1[i] ELSE parent2[i]]

\* An all-false individual is left as it is.
RepairedNever(individual) == {individual}

\* An all-false individual gets one bit, drawn at random, forced true.
Repaired(individual) ==
    IF AllFalse(individual)
    THEN { [individual EXCEPT ![i] = TRUE] : i \in DOMAIN individual }
    ELSE {individual}

\* perform_crossover: the offspring pairs the mating pairs can give.
perform_crossover(pairs, crossover, n) ==
    UNION { Repaired(Cross(pair[1], pair[2], inheritance))
                \X Repaired(Cross(pair[2], pair[1], inheritance)) :
            pair \in pairs, inheritance \in Inheritances(crossover, n) }

\* The sets of bits a mutation can flip at a rate: none at 0, all at 1.
Flips(rate, n) ==
    IF rate = 0 THEN {[i \in 1..n |-> FALSE]}
    ELSE IF rate = 10 THEN {[i \in 1..n |-> TRUE]}
    ELSE [1..n -> BOOLEAN]

Mutated(individual, rate) ==
    UNION { Repaired([i \in DOMAIN individual |-> individual[i] # flip[i]]) :
            flip \in Flips(rate, Len(individual)) }

\* perform_mutation: what the offspring pairs can become.
perform_mutation(offspring, rate) ==
    UNION { Mutated(pair[1], rate) \X Mutated(pair[2], rate) :
            pair \in offspring }

\* The ways to fill a number of slots from offspring pairs; of the last pair
\* only offspring A is kept when one slot is left.
RECURSIVE Broods(_, _)
Broods(slots, offspring) ==
    IF slots = 0 THEN {<<>>}
    ELSE IF slots = 1 THEN { <<pair[1]>> : pair \in offspring }
    ELSE { pair \o brood :
            pair \in offspring, brood \in Broods(slots - 2, offspring) }

GeneticSettings ==
    <<population_size, inputs_number, elitism_size, mutation_rate,
      crossover_method, evaluator>>

\* initialize_population: population_size individuals, each drawn again until
\* it is not all-false.
initialize_population ==
    /\ stage = "constructed"
    /\ population' \in
         [1..population_size ->
            {individual \in Individuals(inputs_number) : ~AllFalse(individual)}]
    /\ stage' = "populated"
    /\ UNCHANGED <<performance, fitness, GeneticSettings>>
    /\ UNCHANGED <<thresholds, flags, locals, results, network, now, calls,
                   readings, script, reference, ncalls, persistence, console>>

\* evaluate_population: one evaluation per individual.
evaluate_population ==
    /\ stage = "populated"
    /\ performance' =
         [i \in 1..population_size |-> Evaluate(evaluator, population[i])]
    /\ stage' = "evaluated"
    /\ UNCHANGED <<population, fitness, GeneticSettings>>
    /\ UNCHANGED <<thresholds, flags, locals, results, network, now, calls,
                   readings, script, reference, ncalls, persistence, console>>

\* calculate_fitness (objective-based).
calculate_fitness ==
    /\ stage = "evaluated"
    /\ fitness' =
         [i \in 1..population_size |->
            calculate_objetive_fitness(performance[i])]
    /\ stage' = "assigned"
    /\ UNCHANGED <<population, performance, GeneticSettings>>
    /\ UNCHANGED <<thresholds, flags, locals, results, network, now, calls,
                   readings, script, reference, ncalls, persistence, console>>

\* evolve_population: selection, crossover and mutation, then the population
\* is replaced: the elite first, then the offspring.
evolve_population ==
    /\ stage = "assigned"
    /\ \E brood \in
         Broods(population_size - elitism_size,
                perform_mutation(
                    perform_crossover(perform_selection(population, fitness),
                                      crossover_method, inputs_number),
                    mutation_rate)) :
         population' = Elite(population, fitness, elitism_size) \o brood
    /\ stage' = "populated"
    /\ UNCHANGED <<performance, fitness, GeneticSettings>>
    /\ UNCHANGED <<thresholds, flags, locals, results, network, now, calls,
                   readings, script, reference, ncalls, persistence, console>>

\* A GeneticAlgorithm configured for one of the searches, its population not
\* yet drawn; the IncrementalOrder object stays idle.
InitGenetic ==
    /\ minimum_order = 1
    /\ maximum_order = 1
    /\ step = 1
    /\ tolerance = 0
    /\ generalization_performance_goal = 0
    /\ maximum_iterations_number = 1
    /\ maximum_generalization_failures = 1
    /\ maximum_time = 0
    /\ reserve_performance_data = TRUE
    /\ reserve_generalization_performance_data = TRUE
    /\ reserve_parameters_data = TRUE
    /\ reserve_minimal_parameters = TRUE
    /\ display = FALSE
    /\ IdleState
    /\ Release
    /\ \E size \in Sizes :
         /\ population_size = size[1]
         /\ inputs_number = size[2]
    /\ elitism_size \in 0..population_size
    /\ mutation_rate \in MutationRates
    /\ crossover_method \in Crossovers(inputs_number)
    /\ evaluator \in Gains(inputs_number)
    /\ population = <<>> /\ performance = <<>> /\ fitness = <<>>
    /\ stage = "constructed"

NextGenetic ==
    \/ initialize_population
    \/ evaluate_population
    \/ calculate_fitness
    \/ evolve_population

SpecGenetic == InitGenetic /\ [][NextGenetic]_vars

\* ------------------------------------------------------------ properties

StoppingReasons ==
    {"MaximumTime", "GeneralizationPerformanceGoal", "MaximumIterations",
     "MaximumGeneralizationFailures", "AlgorithmFinished"}

\* The order evaluated in the latest iteration, and what the five criteria say
\* of that iteration (prev_generalization_performance holds its generalization
\* performance once the iteration is over).
LastOrder == results.order_data[Len(results.order_data)]
TimeExceeded == elapsed_time > maximum_time
GoalReached == prev_generalization_performance < generalization_performance_goal
IterationsExceeded == iterations > maximum_iterations_number
FailuresReached == generalization_failures >= maximum_generalization_failures
BoundaryReached == LastOrder = maximum_order

Iterated == pc \in {"loop", "final", "done"} /\ iterations > 0
Stopped == pc \in {"final", "done"}

\* C1: the recorded stopping condition is the first of (time, goal, iterations,
\* failures, boundary) that holds at the final iteration, and in every iteration
\* after which the loop goes on none of the five holds.
C1_StoppingPriority ==
    /\ Stopped =>
        /\ results.stopping_condition =
             IF TimeExceeded THEN "MaximumTime"
             ELSE IF GoalReached THEN "GeneralizationPerformanceGoal"
             ELSE IF IterationsExceeded THEN "MaximumIterations"
             ELSE IF FailuresReached THEN "MaximumGeneralizationFailures"
             ELSE "AlgorithmFinished"
        /\ TimeExceeded \/ GoalReached \/ IterationsExceeded
             \/ FailuresReached \/ BoundaryReached
    /\ (pc = "loop" /\ iterations > 0) =>
        /\ ~TimeExceeded /\ ~GoalReached /\ ~IterationsExceeded
        /\ ~FailuresReached /\ ~BoundaryReached
        /\ results.stopping_condition = "Unset"

\* C1 witness: a run of several iterations that reaches the goal in the very
\* iteration that evaluates maximum_order, and records the goal.
C1_Witness ==
    /\ pc = "done"
    /\ iterations > 1
    /\ GoalReached /\ BoundaryReached /\ ~TimeExceeded
    /\ results.stopping_condition = "GeneralizationPerformanceGoal"

\* C2: for minimum_order <= maximum_order and step >= 1 the orders evaluated
\* start at minimum_order, never exceed maximum_order, never decrease, each is
\* the one before plus step except that the last may be clamped to
\* maximum_order, and the order is not advanced once a criterion has fired.
C2_OrderSequence ==
    (minimum_order <= maximum_order /\ step >= 1) =>
        LET d == results.order_data
        IN  /\ Iterated => d[1] = minimum_order
            /\ \A i \in 1..Len(d) : d[i] <= maximum_order
            /\ \A i \in 1..(Len(d) - 1) :
                /\ d[i] <= d[i + 1]
                /\ \/ d[i + 1] = d[i] + step
                   \/ /\ i + 1 = Len(d)
                      /\ d[i + 1] = maximum_order
                      /\ d[i] + step > maximum_order
            /\ Stopped => order = LastOrder
            /\ (pc = "loop" /\ iterations > 0) =>
                /\ order = Min(maximum_order, LastOrder + step)
                /\ order > LastOrder

\* C2 witness: a finished run whose last step was clamped.
C2_Witness ==
    /\ pc = "done"
    /\ step = 2
    /\ results.order_data = <<2, 4, 5>>
    /\ results.stopping_condition = "AlgorithmFinished"

\* A step that runs one iteration of the loop; after it
\* prev_generalization_performance holds the iteration's generalization
\* performance and the last call of the evaluator its parameter vector.
IterationStep == pc = "loop" /\ iterations' = iterations + 1

\* C3: an iteration adopts its order as the optimum (with its generalization
\* performance and parameter vector) exactly when it is the first iteration or
\* its performance is lower than the optimum's by more than tolerance;
\* otherwise the optimum is left as it was.
C3_Adoption ==
    [][IterationStep =>
        LET current == prev_generalization_performance'
            obtained == calls'[Len(calls')].training.parameters
            improves ==
                \/ iterations = 0
                \/ /\ current < optimum_generalization_performance
                   /\ optimum_generalization_performance - current > tolerance
        IN  IF improves
            THEN /\ optimal_order' = order
                 /\ optimum_generalization_performance' = current
                 /\ optimum_parameters' = obtained
            ELSE UNCHANGED <<optimal_order, optimum_generalization_performance,
                             optimum_parameters>>]_vars

\* C3 witness: an improvement of exactly tolerance was passed over and a larger
\* one adopted afterwards.
C3_Witness ==
    /\ tolerance = 1
    /\ results.generalization_performance_data = <<6, 5, 4>>
    /\ optimal_order = results.order_data[3]
    /\ optimal_order # results.order_data[1]
    /\ optimum_generalization_performance = 4
    /\ optimum_parameters = <<4>>

\* C4: the failure counter starts at 0, goes up by one in an iteration that is
\* not adopted and whose performance is above the previous iteration's, is
\* unchanged in every other iteration, and never goes down during a run.
C4_FailureCounter ==
    [][/\ IterationStep =>
            LET current == prev_generalization_performance'
                adopted ==
                    \/ iterations = 0
                    \/ /\ current < optimum_generalization_performance
                       /\ optimum_generalization_performance - current > tolerance
            IN  generalization_failures' =
                    IF ~adopted /\ prev_generalization_performance < current
                    THEN generalization_failures + 1
                    ELSE generalization_failures
       /\ (pc = "loop" /\ iterations = 0) => generalization_failures = 0
       /\ pc # "idle" => generalization_failures' >= generalization_failures
      ]_vars

\* C4 witness: two failures with an adopted improvement between them.
C4_Witness ==
    /\ tolerance = 0
    /\ results.generalization_performance_data = <<5, 6, 4, 5>>
    /\ optimum_generalization_performance = 4
    /\ generalization_failures = 2

\* The orders the evaluator was invoked with in the current call.
CallOrders == [i \in 1..Len(calls) |-> calls[i].order]

\* C5: the evaluator is invoked once per loop iteration, at that iteration's
\* order, and once more after the loop at optimal_order: n + 1 times for n
\* iterations; with step >= 1 and minimum_order <= maximum_order no order is
\* evaluated twice inside the loop.
C5_EvaluatorCalls ==
    /\ pc \in {"loop", "final"} =>
        /\ Len(calls) = iterations
        /\ CallOrders = results.order_data
    /\ pc = "done" =>
        /\ Len(calls) = results.iterations_number + 1
        /\ SubSeq(CallOrders, 1, iterations) = results.order_data
        /\ calls[Len(calls)].order = results.optimal_order
    /\ (pc \in {"loop", "final", "done"}
          /\ step >= 1 /\ minimum_order <= maximum_order) =>
        \A i, j \in 1..Len(results.order_data) :
            i # j => results.order_data[i] # results.order_data[j]

\* C5 witness: three iterations and a fourth evaluation, at the order the second
\* iteration had evaluated.
C5_Witness ==
    /\ pc = "done"
    /\ results.iterations_number = 3
    /\ Len(calls) = 4
    /\ calls[4].order = calls[2].order
    /\ calls[4].training # calls[2].training

\* C6 (as claimed): when the call has returned the live network has
\* optimal_order hidden neurons and holds the parameter vector captured when
\* that order was adopted.
C6_NetworkHoldsOptimum ==
    pc = "done" =>
        /\ network.order = results.optimal_order
        /\ network.parameters = optimum_parameters

\* The generalization performances the evaluator returned in the current call.
CallGeneralizations ==
    [i \in 1..Len(calls) |-> calls[i].training.generalization]

\* The scenario of C7: orders 1 to 5 by 2, the evaluator returning 0.9, 0.5,
\* 0.6 in the loop and 0.4 afterwards, no criterion but the boundary firing.
ScenarioRun ==
    /\ pc = "done"
    /\ minimum_order = 1 /\ maximum_order = 5 /\ step = 2
    /\ CallGeneralizations = <<9, 5, 6, 4>>
    /\ ~TimeExceeded /\ ~GoalReached /\ ~IterationsExceeded /\ ~FailuresReached

WithinTolerance(current) ==
    /\ iterations > 0
    /\ current < optimum_generalization_performance
    /\ optimum_generalization_performance - current <= tolerance

\* C8 (as claimed): such an iteration leaves the optimum as it was and
\* increments the failure counter.
C8_Original ==
    [][(IterationStep /\ WithinTolerance(prev_generalization_performance')) =>
        /\ UNCHANGED <<optimal_order, optimum_generalization_performance,
                       optimum_parameters>>
        /\ generalization_failures' = generalization_failures + 1]_vars

\* C8 (amended): such an iteration leaves the optimum as it was, and increments
\* the failure counter only when the previous iteration's performance is
\* lower than its own; otherwise the counter is unchanged.
C8_Amended ==
    [][(IterationStep /\ WithinTolerance(prev_generalization_performance')) =>
        /\ UNCHANGED <<optimal_order, optimum_generalization_performance,
                       optimum_parameters>>
        /\ generalization_failures' =
            IF prev_generalization_performance < prev_generalization_performance'
            THEN generalization_failures + 1
            ELSE generalization_failures]_vars

\* C8 witness: with a tolerance of 0.2, 0.6 then 0.4 (within tolerance, no
\* failure counted) then 0.5 (within tolerance, above 0.4: one failure).
C8_Witness ==
    /\ tolerance = 2
    /\ results.generalization_performance_data = <<6, 4, 5>>
    /\ optimum_generalization_performance = 6
    /\ optimal_order = results.order_data[1]
    /\ generalization_failures = 1

\* C9: a call that has returned has recorded one of the five stopping
\* conditions; and a call fed the inputs (evaluator outputs, elapsed times) of
\* the call before it, under the same configuration, returns the same results
\* record: stopping condition, optimal order, iteration count, histories.
C9_Deterministic ==
    /\ pc = "done" => results.stopping_condition \in StoppingReasons
    /\ (pc = "done" /\ ncalls > 1 /\ flags = reference.flags) =>
        results = reference.results

\* C9 witness: a second call, fed the inputs of the first under the same
\* flags, has returned after two iterations.
C9_Witness ==
    /\ pc = "done"
    /\ ncalls > 1
    /\ flags = reference.flags
    /\ results.iterations_number = 2
    /\ results.stopping_condition = "AlgorithmFinished"
    /\ results.optimal_order = 3

\* C10: each history holds one entry per iteration, in order, when its
\* reserve flag is set and is empty when it is not; minimal_parameters holds
\* the optimum parameters when its flag is set and is empty when not; and a
\* call fed the same inputs under other flags returns the same optimal order,
\* stopping condition and iteration count.
C10_ReservedHistories ==
    /\ pc \in {"loop", "final", "done"} =>
        LET n == iterations
            fed == SubSeq(calls, 1, n)
        IN  /\ Len(results.order_data) = n
            /\ results.performance_data =
                IF reserve_performance_data
                THEN [i \in 1..n |-> fed[i].training.training] ELSE <<>>
            /\ results.generalization_performance_data =
                IF reserve_generalization_performance_data
                THEN [i \in 1..n |-> fed[i].training.generalization] ELSE <<>>
            /\ results.parameters_data =
                IF reserve_parameters_data
                THEN [i \in 1..n |-> fed[i].training.parameters] ELSE <<>>
            /\ results.minimal_parameters =
                IF pc = "done" /\ reserve_minimal_parameters
                THEN optimum_parameters ELSE <<>>
    /\ (pc = "done" /\ ncalls > 1) =>
        /\ results.optimal_order = reference.results.optimal_order
        /\ results.stopping_condition = reference.results.stopping_condition
        /\ results.iterations_number = reference.results.iterations_number

\* C10 witness: a second call of two iterations under other flags than the
\* first: no training performances and no minimal parameters kept, the
\* parameter history kept.
C10_Witness ==
    /\ pc = "done"
    /\ ncalls > 1
    /\ flags # reference.flags
    /\ ~reserve_performance_data /\ ~reserve_minimal_parameters
    /\ reserve_parameters_data
    /\ results.iterations_number = 2
    /\ results.performance_data = <<>>
    /\ Len(results.parameters_data) = 2
    /\ Len(reference.results.performance_data) = 2
    /\ results.minimal_parameters = <<>>

\* C11 (as claimed): set_step(s) with s = 0 or s > maximum_order -
\* minimum_order raises an error and leaves step as it was,
\* set_maximum_generalization_failures(0) raises an error and leaves
\* maximum_generalization_failures as it was, and so neither field is ever 0
\* on an object a search can be started on.
C11_InvalidRejected ==
    [][/\ (/\ op'.call = "set_step"
           /\ \/ op'.argument = 0
              \/ op'.argument > maximum_order - minimum_order)
            => (raised' /\ step' = step)
       /\ (/\ op'.call = "set_maximum_generalization_failures"
           /\ op'.argument = 0)
            => (raised' /\ maximum_generalization_failures' =
                             maximum_generalization_failures)
       /\ pc' = "idle" => (step' # 0 /\ maximum_generalization_failures' # 0)
      ]_vars

\* C12: from_XML on a document without an IncrementalOrder root raises an error
\* and has changed no configuration field; load raises an error when the file
\* cannot be read and when the document read has no such root.
C12_NoRootFails ==
    [][/\ (op'.call = "from_XML" /\ document.root # "IncrementalOrder") =>
            /\ raised'
            /\ UNCHANGED <<thresholds, flags, trials_number,
                           performance_calculation_method>>
       /\ (/\ op'.call = "load"
           /\ op'.argument = 0 \/ document.root # "IncrementalOrder")
            => raised'
      ]_vars

\* C12 witness: from_XML has raised on a document whose root is another
\* class's, although the document holds a Step and the object's step differs.
C12_Witness ==
    /\ op.call = "from_XML"
    /\ raised
    /\ document.root = "GeneticAlgorithm"
    /\ document.Step = << <<"3">> >>
    /\ step = 2
    /\ loaded = {}

\* The number a text denotes, in tenths.
Denoted(text) == atof(text)

\* C13 (as claimed): from_XML on a document with the root succeeds whatever
\* elements are present; a field whose element is absent keeps its value and a
\* field whose element is present takes the value the document gives.
C13_TolerantLoad ==
    [][(op'.call = "from_XML" /\ document.root = "IncrementalOrder") =>
        LET Whole(element, before, after) ==
                IF Present(element)
                THEN 10 * after = Denoted(GetText(element))
                ELSE after = before
            Tenths(element, before, after) ==
                IF Present(element)
                THEN after = Denoted(GetText(element))
                ELSE after = before
            Flag(element, before, after) ==
                IF Present(element)
                THEN after = (GetText(element) = <<"1">>)
                ELSE after = before
        IN  /\ ~raised'
            /\ Whole(document.MinimumOrder, minimum_order, minimum_order')
            /\ Whole(document.MaximumOrder, maximum_order, maximum_order')
            /\ Whole(document.TrialsNumber, trials_number, trials_number')
            /\ IF Present(document.PerformanceCalculationMethod)
               THEN performance_calculation_method' =
                        GetText(document.PerformanceCalculationMethod)[1]
               ELSE UNCHANGED performance_calculation_method
            /\ Whole(document.Step, step, step')
            /\ Flag(document.ReserveParametersData,
                    reserve_parameters_data, reserve_parameters_data')
            /\ Flag(document.ReservePerformanceData,
                    reserve_performance_data, reserve_performance_data')
            /\ Flag(document.ReserveGeneralizationPerformanceData,
                    reserve_generalization_performance_data,
                    reserve_generalization_performance_data')
            /\ Flag(document.ReserveMinimalParameters,
                    reserve_minimal_parameters, reserve_minimal_parameters')
            /\ Flag(document.Display, display, display')
            /\ Tenths(document.GeneralizationPerformanceGoal,
                      generalization_performance_goal,
                      generalization_performance_goal')
            /\ Whole(document.MaximumIterationsNumber,
                     maximum_iterations_number, maximum_iterations_number')
            /\ Tenths(document.MaximumTime, maximum_time, maximum_time')
            /\ Tenths(document.Tolerance, tolerance, tolerance')
            /\ Whole(document.MaximumGeneralizationFailures,
                     maximum_generalization_failures,
                     maximum_generalization_failures')
      ]_vars

\* The elements on the console.
Printed(out) == {out[i] : i \in 1..Len(out)}

\* C14: when set_step or set_maximum_generalization_failures refuses the value
\* of its element, from_XML does not raise: the refused field keeps its value,
\* the setter's message is printed, and every other element present is loaded,
\* those read after the refused one too.
C14_RejectedFieldOnly ==
    [][(op'.call = "from_XML" /\ document.root = "IncrementalOrder") =>
        LET step_message ==
                IF Present(document.Step)
                THEN StepException(atoi(GetText(document.Step)),
                                   minimum_order', maximum_order')
                ELSE ""
            failures_message ==
                IF Present(document.MaximumGeneralizationFailures)
                THEN FailuresException(
                        atoi(GetText(document.MaximumGeneralizationFailures)))
                ELSE ""
            refused ==
                (IF step_message # "" THEN {"Step"} ELSE {})
                  \cup (IF failures_message # ""
                        THEN {"MaximumGeneralizationFailures"} ELSE {})
        IN  /\ ~raised'
            /\ step_message # "" =>
                /\ step' = step
                /\ Len(console') > Len(console)
                /\ step_message \in Printed(console')
            /\ failures_message # "" =>
                /\ maximum_generalization_failures' =
                     maximum_generalization_failures
                /\ Len(console') > Len(console)
                /\ console'[Len(console')] = failures_message
            /\ \A name \in ElementNames \ refused :
                Present(document[name]) => name \in loaded'
            /\ (Present(document.Step) /\ "Step" \notin refused) =>
                step' = atoi(GetText(document.Step))
            /\ Present(document.ReserveParametersData) =>
                reserve_parameters_data' =
                    (GetText(document.ReserveParametersData) # <<"0">>)
            /\ Present(document.Display) =>
                display' = (GetText(document.Display) # <<"0">>)
            /\ Present(document.MaximumIterationsNumber) =>
                maximum_iterations_number' =
                    atoi(GetText(document.MaximumIterationsNumber))
            /\ Present(document.Tolerance) =>
                tolerance' = atof(GetText(document.Tolerance))
            /\ (/\ Present(document.MaximumGeneralizationFailures)
                /\ "MaximumGeneralizationFailures" \notin refused) =>
                maximum_generalization_failures' =
                    atoi(GetText(document.MaximumGeneralizationFailures))
      ]_vars

\* C14 witness: a debug build has loaded a document whose Step (3) exceeds the
\* order range it gives (2 to 4) and whose failure threshold is 0: both kept
\* their values, two messages were printed, the thirteen other elements were
\* loaded.
C14_Witness ==
    /\ debug
    /\ op.call = "from_XML"
    /\ ~raised
    /\ document.Step = << <<"3">> >>
    /\ document.MaximumGeneralizationFailures = << <<"0">> >>
    /\ minimum_order = 2 /\ maximum_order = 4
    /\ step = 2
    /\ maximum_generalization_failures = 1
    /\ Len(console) = 2
    /\ Cardinality(loaded) = 13
    /\ tolerance = 1
    /\ ~display

\* The configuration a document was written for: what to_XML wrote, read back
\* for what it says.
Written(element, values, Write(_)) ==
    CHOOSE v \in values : Write(v) = GetText(element)

\* C15 (as claimed): from_XML on the document to_XML wrote for a legal
\* configuration leaves every field at that configuration's value.
C15_RoundTrip ==
    [][(/\ op'.call = "from_XML"
        /\ document.root = "IncrementalOrder"
        /\ Written(document.Step, 0..9, WriteInteger) >= 1
        /\ Written(document.MaximumGeneralizationFailures, 0..9,
                   WriteInteger) >= 1) =>
        /\ minimum_order' =
             Written(document.MinimumOrder, 0..9, WriteInteger)
        /\ maximum_order' =
             Written(document.MaximumOrder, 0..9, WriteInteger)
        /\ trials_number' =
             Written(document.TrialsNumber, 0..9, WriteInteger)
        /\ performance_calculation_method' =
             GetText(document.PerformanceCalculationMethod)[1]
        /\ step' = Written(document.Step, 0..9, WriteInteger)
        /\ reserve_parameters_data' =
             Written(document.ReserveParametersData, BOOLEAN, WriteBool)
        /\ reserve_performance_data' =
             Written(document.ReservePerformanceData, BOOLEAN, WriteBool)
        /\ reserve_generalization_performance_data' =
             Written(document.ReserveGeneralizationPerformanceData, BOOLEAN,
                     WriteBool)
        /\ reserve_minimal_parameters' =
             Written(document.ReserveMinimalParameters, BOOLEAN, WriteBool)
        /\ display' = Written(document.Display, BOOLEAN, WriteBool)
        /\ generalization_performance_goal' =
             Written(document.GeneralizationPerformanceGoal, 0..30,
                     WriteDouble)
        /\ maximum_iterations_number' =
             Written(document.MaximumIterationsNumber, 0..9, WriteInteger)
        /\ maximum_time' = Written(document.MaximumTime, 0..30, WriteDouble)
        /\ tolerance' = Written(document.Tolerance, 0..30, WriteDouble)
        /\ maximum_generalization_failures' =
             Written(document.MaximumGeneralizationFailures, 0..9,
                     WriteInteger)
      ]_vars

\* C16: every call starts from a new results record and new search state: it
\* enters with empty histories, order at minimum_order and both counters at 0,
\* whatever the call before left; its histories hold one entry per iteration
\* of its own, the first order being minimum_order; its first iteration sets
\* the optimum to that iteration's order and performance; and no step of a
\* run changes a configuration field.
C16_FreshCall ==
    [][/\ (pc = "idle" /\ pc' = "loop") =>
            /\ results' = NewResults
            /\ order' = minimum_order
            /\ iterations' = 0
            /\ generalization_failures' = 0
            /\ optimum_parameters' = <<>>
       /\ pc' \in {"loop", "final", "done"} =>
            /\ Len(results'.order_data) = iterations'
            /\ Len(results'.performance_data) = iterations'
            /\ Len(results'.generalization_performance_data) = iterations'
            /\ Len(results'.parameters_data) = iterations'
            /\ iterations' > 0 => results'.order_data[1] = minimum_order
            /\ \A i \in 1..iterations' :
                results'.generalization_performance_data[i] =
                    calls'[i].training.generalization
       /\ (IterationStep /\ iterations = 0) =>
            /\ optimal_order' = minimum_order
            /\ optimum_generalization_performance' =
                 calls'[1].training.generalization
       /\ UNCHANGED <<thresholds, flags>>
      ]_vars

\* C16 witness: a second call has returned after one iteration, the first call
\* having run two and left another optimum behind.
C16_Witness ==
    /\ pc = "done"
    /\ ncalls = 2
    /\ Len(reference.results.order_data) = 2
    /\ reference.results.optimal_order = 2
    /\ results.order_data = <<1>>
    /\ results.optimal_order = 1
    /\ results.iterations_number = 1
    /\ Len(results.generalization_performance_data) = 1

\* C17: a call fed the evaluator outputs and elapsed times of the call before
\* it, display alone being different, evaluates the same orders (the one after
\* the loop included) and returns the same results record: optimal order,
\* stopping condition, iteration count, histories, final performances.
C17_DisplaySideChannel ==
    (ncalls > 1 /\ display # reference.flags[5]) =>
        /\ pc \in {"loop", "final", "done"} =>
            /\ Len(results.order_data) <= Len(reference.results.order_data)
            /\ results.order_data =
                 SubSeq(reference.results.order_data, 1,
                        Len(results.order_data))
        /\ pc = "done" =>
            /\ results = reference.results
            /\ calls[Len(calls)].order = reference.results.optimal_order
            /\ [i \in 1..Len(calls) |-> calls[i].training] = script.trainings
            /\ readings = script.readings

\* C17 witness: a call with the report on wrote its lines, the same call with
\* the report off wrote none and returned the same record after two iterations.
C17_Witness ==
    /\ pc = "done"
    /\ ncalls = 2
    /\ ~display
    /\ reference.flags[5]
    /\ results.iterations_number = 2
    /\ results.stopping_condition = "GeneralizationPerformanceGoal"
    /\ results = reference.results
    /\ Len(console) = 13

\* C20: a run that stops on MaximumIterations has performed exactly
\* maximum_iterations_number + 1 iterations (the counter is incremented before
\* it is compared, and the criterion needs it above the maximum), and no run,
\* whatever its configuration (step = 0 included) and the evaluator's outputs,
\* performs more.
C20_IterationCap ==
    /\ pc \in {"loop", "final", "done"} =>
        /\ iterations <= maximum_iterations_number + 1
        /\ Len(results.order_data) = iterations
        /\ pc = "loop" => iterations <= maximum_iterations_number
    /\ (Stopped /\ results.stopping_condition = "MaximumIterations") =>
        /\ iterations = maximum_iterations_number + 1
        /\ Len(calls) >= maximum_iterations_number + 1
    /\ (Stopped /\ iterations <= maximum_iterations_number) =>
        results.stopping_condition # "MaximumIterations"

\* C20 witness: with step = 0 the order never moves; the run has ended on
\* MaximumIterations after 3 + 1 iterations at the same order.
C20_Witness ==
    /\ pc = "done"
    /\ step = 0
    /\ maximum_iterations_number = 3
    /\ results.stopping_condition = "MaximumIterations"
    /\ results.iterations_number = 4
    /\ results.order_data = <<1, 1, 1, 1>>

\* C18: no individual of the population is the all-false input mask, in any
\* state: after initialize_population and after any number of
\* evolve_population steps, whatever the crossover method and the mutation
\* rate.
C18_NoAllFalse ==
    \A i \in DOMAIN population : ~AllFalse(population[i])

\* A generation bred without elitism at mutation rate 1 from parents that all
\* used every one of three inputs: every offspring was flipped to all-false
\* and got one bit forced true.
C18_Witness ==
    /\ stage = "populated" /\ fitness # <<>>
    /\ inputs_number = 3 /\ elitism_size = 0 /\ mutation_rate = 10
    /\ evaluator = [i \in 1..3 |-> 2]
    /\ \A i \in DOMAIN fitness :
         fitness[i] = calculate_objetive_fitness(
                          Evaluate(evaluator, [j \in 1..3 |-> TRUE]))
    /\ \A i \in DOMAIN population :
         Cardinality(UsedInputs(population[i])) = 1

\* The fitness of the fittest individual.
BestFitness(fit) == fit[Ranked(fit, 1)]

\* The fitness an individual gets when it is evaluated.
FitnessOf(individual) ==
    calculate_objetive_fitness(Evaluate(evaluator, individual))

RECURSIVE AdoptionIteration(_, _)
AdoptionIteration(generalizations, n) ==
    IF n <= 1 THEN 1
    ELSE LET k == AdoptionIteration(generalizations, n - 1)
         IN  IF /\ generalizations[n] < generalizations[k]
                /\ generalizations[k] - generalizations[n] > tolerance
             THEN n ELSE k

\* C21: in the results of a call that has returned,
\* final_generalization_performance is the generalization performance the
\* loop observed in the iteration that adopted optimal_order, not that of the
\* evaluation after the loop; final_performance is the training performance
\* of the evaluation made at optimal_order after the loop; iterations_number
\* is the number of loop iterations; elapsed_time is the elapsed time read in
\* the last loop iteration.
C21_TerminalFields ==
    pc = "done" =>
        LET n == Len(results.order_data)
            k == AdoptionIteration(CallGeneralizations, n)
        IN  /\ Len(calls) = n + 1
            /\ results.optimal_order = calls[k].order
            /\ results.final_generalization_performance =
                 calls[k].training.generalization
            /\ calls[n + 1].order = results.optimal_order
            /\ results.final_performance = calls[n + 1].training.training
            /\ results.iterations_number = n
            /\ results.elapsed_time = readings[n]

\* C21 witness: three iterations, the second adopted at 0.5; the evaluation
\* after the loop gives 0.4 at that order, and the clock moved only in the
\* last iteration.
C21_Witness ==
    /\ pc = "done"
    /\ CallGeneralizations = <<9, 5, 6, 4>>
    /\ readings = <<0, 0, 1>>
    /\ results.optimal_order = calls[2].order
    /\ results.final_generalization_performance = 5
    /\ results.final_performance = 1
    /\ results.iterations_number = 3
    /\ results.elapsed_time = 1

\* ceil(a / b) for a >= 0 and b >= 1.
CeilDiv(a, b) == (a + b - 1) \div b

\* C22: for step >= 1 and minimum_order <= maximum_order a call terminates,
\* whatever the evaluator returns and whatever the other thresholds are, after
\* at most ceil((maximum_order - minimum_order) / step) + 1 loop iterations.
C22_Terminates ==
    /\ []((step >= 1 /\ minimum_order <= maximum_order) =>
            iterations <= CeilDiv(maximum_order - minimum_order, step) + 1)
    /\ (step >= 1 /\ minimum_order <= maximum_order) => <>(pc = "done")

\* C22 witness: orders 3, 4, 5 by steps of 1: the run ended at the boundary in
\* its third iteration, the most the bound allows.
C22_Witness ==
    /\ pc = "done"
    /\ minimum_order = 3 /\ maximum_order = 5 /\ step = 1
    /\ results.iterations_number
         = CeilDiv(maximum_order - minimum_order, step) + 1
    /\ results.stopping_condition = "AlgorithmFinished"

\* The orders recorded in order_data.
RecordedOrders ==
    {results.order_data[i] : i \in 1..Len(results.order_data)}

\* C23: for tolerance >= 0, every generalization performance observed in the
\* loop is at least the optimum performance (in the end
\* final_generalization_performance) minus tolerance; the optimum performance
\* never goes up from one iteration to the next; and optimal_order is one of
\* the orders recorded in order_data.
C23_OptimumWithinTolerance ==
    /\ [](tolerance >= 0 =>
            /\ Iterated =>
                /\ \A i \in 1..iterations :
                     CallGeneralizations[i]
                        >= optimum_generalization_performance - tolerance
                /\ optimal_order \in RecordedOrders
            /\ pc = "done" =>
                /\ \A i \in 1..results.iterations_number :
                     CallGeneralizations[i]
                        >= results.final_generalization_performance - tolerance
                /\ results.optimal_order \in RecordedOrders)
    /\ [][(tolerance >= 0 /\ IterationStep /\ iterations > 0) =>
            optimum_generalization_performance'
                <= optimum_generalization_performance]_vars

\* C23 witness: tolerance 0.1 and performances 0.9, 0.5, 0.4: the reported
\* optimum is the 0.5 of the second order, and the 0.4 observed after it is
\* exactly tolerance below.
C23_Witness ==
    /\ pc = "done"
    /\ tolerance = 1
    /\ results.generalization_performance_data = <<9, 5, 4>>
    /\ results.final_generalization_performance = 5
    /\ results.optimal_order = results.order_data[2]
    /\ results.optimal_order # results.order_data[3]

\* The iterations so far, the first excluded, whose generalization performance
\* is above that of the iteration just before.
Rises ==
    {i \in 2..iterations : CallGeneralizations[i] > CallGeneralizations[i - 1]}

\* C24: for tolerance >= 0, an iteration whose generalization performance is
\* above the previous iteration's is never adopted as the optimum, and at
\* every point of a run the failure counter is the number of iterations so
\* far (the first excluded) whose performance is above that of the iteration
\* just before, whatever the optimum is.
C24_FailuresCountRises ==
    /\ [](tolerance >= 0 =>
            (Iterated => generalization_failures = Cardinality(Rises)))
    /\ [][(tolerance >= 0 /\ IterationStep /\ iterations > 0
             /\ prev_generalization_performance'
                  > prev_generalization_performance) =>
            UNCHANGED <<optimal_order, optimum_generalization_performance,
                        optimum_parameters>>]_vars

\* C24 witness: tolerance 0.1 and performances 0.6, 0.9, 0.5, 0.6: two rises,
\* the second up to the very value of the optimum, which is still the first
\* order's; the counter is 2.
C24_Witness ==
    /\ Iterated
    /\ tolerance = 1
    /\ results.generalization_performance_data = <<6, 9, 5, 6>>
    /\ optimum_generalization_performance = 6
    /\ optimal_order = results.order_data[1]
    /\ generalization_failures = 2

\* C25: when a call has returned, order_data has iterations_number entries
\* whatever the reserve flags are (the same entries as the call before, fed
\* the same inputs under other flags); its first entry is minimum_order, its
\* last entry is the order the loop stopped at, and that entry is
\* maximum_order when the stopping condition is AlgorithmFinished.
C25_OrderHistory ==
    pc = "done" =>
        LET d == results.order_data
        IN  /\ Len(d) = results.iterations_number
            /\ Len(d) >= 1
            /\ d[1] = minimum_order
            /\ d[Len(d)] = order
            /\ results.stopping_condition = "AlgorithmFinished"
                 => d[Len(d)] = maximum_order
            /\ ncalls > 1 => d = reference.results.order_data

\* C25 witness: a second call with the three history flags off, ended at the
\* boundary: no performance, generalization performance or parameters
\* recorded, two orders recorded.
C25_Witness ==
    /\ pc = "done"
    /\ ncalls > 1
    /\ ~reserve_performance_data
    /\ ~reserve_generalization_performance_data
    /\ ~reserve_parameters_data
    /\ results.performance_data = <<>>
    /\ results.generalization_performance_data = <<>>
    /\ results.parameters_data = <<>>
    /\ results.order_data = <<1, 3>>
    /\ results.iterations_number = 2
    /\ results.stopping_condition = "AlgorithmFinished"

\* The configuration members other than step and
\* maximum_generalization_failures.
OtherMembers ==
    <<minimum_order, maximum_order, tolerance, generalization_performance_goal,
      maximum_iterations_number, maximum_time, flags, trials_number,
      performance_calculation_method>>

\* C26: load sets step to 1 and maximum_generalization_failures to 3 before
\* it reads the file, from_XML does not.  After a load that succeeds on a
\* document without the Step element step is 1, and without the
\* MaximumGeneralizationFailures element maximum_generalization_failures is
\* 3, whatever they were; after a load that fails because the file cannot be
\* read both are at these defaults; the other members are as from_XML alone
\* leaves them (untouched when the file cannot be read).  After from_XML on a
\* document without the element the member is what it was.
C26_LoadResets ==
    [][/\ (op'.call = "load" /\ op'.argument = 1 /\ ~raised') =>
            /\ ~Present(document.Step) => step' = 1
            /\ ~Present(document.MaximumGeneralizationFailures)
                 => maximum_generalization_failures' = 3
            /\ ~Present(document.MinimumOrder)
                 => minimum_order' = minimum_order
            /\ ~Present(document.MaximumTime) => maximum_time' = maximum_time
            /\ ~Present(document.Tolerance) => tolerance' = tolerance
            /\ UNCHANGED <<maximum_order, generalization_performance_goal,
                           maximum_iterations_number, flags, trials_number,
                           performance_calculation_method>>
       /\ (op'.call = "load" /\ op'.argument = 0) =>
            /\ raised'
            /\ step' = 1
            /\ maximum_generalization_failures' = 3
            /\ UNCHANGED OtherMembers
       /\ (op'.call = "from_XML" /\ ~raised') =>
            /\ ~Present(document.Step) => step' = step
            /\ ~Present(document.MaximumGeneralizationFailures)
                 => maximum_generalization_failures'
                      = maximum_generalization_failures
      ]_vars

\* C26 witness: a load that succeeded on a document holding neither element
\* (it holds a tolerance): both members are at their defaults, the tolerance
\* is the document's and the order range is the one configured.
C26_Witness ==
    /\ op = Call("load", 1) /\ ~raised
    /\ ~Present(document.Step)
    /\ ~Present(document.MaximumGeneralizationFailures)
    /\ Present(document.Tolerance)
    /\ loaded = {"Tolerance"}
    /\ step = 1 /\ maximum_generalization_failures = 3
    /\ tolerance = 1
    /\ minimum_order = 1 /\ maximum_order = 4

====
